---- MODULE Spec2Model ----
(***************************************************************************)
(* Model of logger_config/core.py: setup_logger(config) configures the     *)
(* process-wide root logger (file sink, optional console sink, per-library *)
(* thresholds) after asking the retention cleaner to prune the log root.   *)
(*                                                                         *)
(* Paths are sequences of segments (os.path.join appends segments), a      *)
(* strftime format is a sequence of directives and literals, and a         *)
(* configuration is a function from option names to values.  The Python    *)
(* value None is the string NoneValue.                                     *)
(***************************************************************************)
EXTENDS Integers, Sequences, FiniteSets, TLC

\* ------------------------------------------------------------------ bounds
MaxCalls == 2           \* calls of setup_logger in one process
MaxTicks == 1           \* advances of the wall clock between the calls

\* ------------------------------------------------- logging severity levels
NOTSET == 0
DEBUG == 10
INFO == 20
WARNING == 30
ERROR == 40
Levels == {DEBUG, INFO, WARNING, ERROR}

NoneValue == "<None>"

\* logging.getLogger() / logging.getLogger("") is the root logger
RootName == ""

\* ------------------------------------------------------------ DEFAULT_CONFIG
DefaultDisabledLoggers ==
    [n \in {"PIL", "urllib3", "fsspec", "requests", "chardet", "vipshome", "pyvips"}
        |-> WARNING]

\* os.getenv('LOG_PATH', 'logs')
getenv(env, default) == IF env = NoneValue THEN default ELSE env

DefaultConfig(env) ==
    [ script_name      |-> NoneValue,
      console_enabled  |-> TRUE,
      log_path         |-> <<getenv(env, "logs")>>,
      date_format      |-> <<"%Y", "%m", "%d">>,
      time_format      |-> <<"%H">>,
      file_format      |-> <<"%M", "%S">>,
      encoding         |-> "utf-8",
      formatter        |-> "%(asctime)s - %(levelname)s - %(message)s",
      file_level       |-> DEBUG,
      console_level    |-> INFO,
      disabled_loggers |-> DefaultDisabledLoggers ]

RecognizedKeys == DOMAIN DefaultConfig(NoneValue)

\* the namespaces the model tracks in the global logger registry
Namespaces == {RootName, "noisy"} \cup DOMAIN DefaultDisabledLoggers

VARIABLES
    DEFAULT_CONFIG,   \* the module-level defaults dictionary
    handlers,         \* logging.getLogger().handlers, in attachment order
    level,            \* logger name -> level set on that logger (NOTSET = none)
    dirs,             \* directories that exist
    files,            \* files that exist
    clock,            \* seconds since 2024-03-05 00:00:00
    ticks,            \* clock advances so far
    calls,            \* setup_logger calls so far
    call              \* the last setup_logger call: input, steps taken, outcome

vars == <<DEFAULT_CONFIG, handlers, level, dirs, files, clock, ticks, calls, call>>

\* ------------------------------------------------------------ caller inputs
\* the option names a caller supplies in this model ("tag" is not recognized)
CallerKeys ==
    {"script_name", "console_enabled", "log_path", "date_format",
     "file_level", "console_level", "disabled_loggers", "tag"}

OptionValues(k) ==
    CASE k = "script_name"      -> {"", "svc"}
      [] k = "console_enabled"  -> {FALSE}
      [] k = "log_path"         -> {<<"custom">>}
      [] k = "date_format"      -> {<<"%Y", "-", "%m">>}
      [] k = "file_level"       -> {ERROR}
      [] k = "console_level"    -> {WARNING}
      [] k = "disabled_loggers" -> { <<>>,
                                     [n \in {"noisy"} |-> ERROR],
                                     [n \in {"noisy"} |-> INFO],
                                     [n \in {RootName} |-> ERROR] }
      [] k = "tag"              -> {"x"}

RECURSIVE MapsOver(_)
MapsOver(K) ==
    IF K = {} THEN { <<>> }
    ELSE LET k == CHOOSE x \in K : TRUE
         IN  { (k :> v) @@ m : v \in OptionValues(k), m \in MapsOver(K \ {k}) }

\* the sets of options one caller supplies: none, one option, or script_name
\* together with one other option
SuppliedKeySets ==
    { {} } \cup { {k} : k \in CallerKeys } \cup { {"script_name", k} : k \in CallerKeys }

\* setup_logger(None) and setup_logger({...})
CallerConfigs ==
    { [isNone |-> TRUE, map |-> <<>>] } \cup
    { [isNone |-> FALSE, map |-> m] : m \in UNION { MapsOver(K) : K \in SuppliedKeySets } }

\* truth value of a configuration argument: None and {} are falsy
ConfigTruthy(config) == ~config.isNone /\ DOMAIN config.map # {}

\* ------------------------------------------------------------------- clock
StartClock == 14 * 3600 + 22 * 60 + 7     \* 14:22:07 on 2024-03-05
TickSteps == {68400}

datetime_now(c) ==
    [ year   |-> 2024,
      month  |-> 3,
      day    |-> 5 + (c \div 86400),
      hour   |-> (c % 86400) \div 3600,
      minute |-> (c % 3600) \div 60,
      second |-> c % 60 ]

Pad2(n) == IF n < 10 THEN "0" \o ToString(n) ELSE ToString(n)

Directive(d, dt) ==
    CASE d = "%Y" -> ToString(dt.year)
      [] d = "%m" -> Pad2(dt.month)
      [] d = "%d" -> Pad2(dt.day)
      [] d = "%H" -> Pad2(dt.hour)
      [] d = "%M" -> Pad2(dt.minute)
      [] d = "%S" -> Pad2(dt.second)
      [] OTHER    -> d

RECURSIVE strftime(_, _)
strftime(dt, fmt) ==
    IF fmt = <<>> THEN ""
    ELSE Directive(Head(fmt), dt) \o strftime(dt, Tail(fmt))

\* -------------------------------------------------------------- filesystem
IsAbs(p) == Len(p) > 0 /\ p[1] = "/"

\* os.path.join: an absolute component discards what precedes it
RECURSIVE os_path_join(_)
os_path_join(parts) ==
    IF Len(parts) = 0 THEN <<>>
    ELSE LET last == parts[Len(parts)]
             init == os_path_join(SubSeq(parts, 1, Len(parts) - 1))
         IN  IF IsAbs(last) THEN last ELSE init \o last

Prefixes(p) == { SubSeq(p, 1, k) : k \in 1..Len(p) }

\* os.makedirs(path, exist_ok=...)
makedirs(ds, fs, path, exist_ok) ==
    IF path \in ds
    THEN [dirs |-> ds, error |-> IF exist_ok THEN "none" ELSE "FileExistsError"]
    ELSE IF Prefixes(path) \cap fs # {}
         THEN [dirs |-> ds, error |-> "FileExistsError"]
         ELSE [dirs |-> ds \cup Prefixes(path), error |-> "none"]

Under(root, p) == Len(p) > Len(root) /\ SubSeq(p, 1, Len(root)) = root

\* clean_logs(root): the retention cleaner may retire what lies under root and
\* may fail; cl = [purges, raises] is what this invocation does
clean_logs(ds, fs, root, cl) ==
    [ dirs   |-> IF cl.purges THEN { p \in ds : ~Under(root, p) } ELSE ds,
      files  |-> IF cl.purges THEN { p \in fs : ~Under(root, p) } ELSE fs,
      raises |-> cl.raises ]

CleanerOutcomes == [purges : BOOLEAN, raises : BOOLEAN]

\* ------------------------------------------------- steps of setup_logger
\* line 76: the argument of clean_logs.  cfg is a local of setup_logger that
\* is assigned only on line 79, so reading cfg['log_path'] here raises
\* UnboundLocalError before clean_logs is called.
CleanLogsArg(config, defaults) ==
    IF ConfigTruthy(config) /\ "log_path" \in DOMAIN config.map
    THEN [error |-> "UnboundLocalError", root |-> <<>>]
    ELSE [error |-> "none", root |-> defaults.log_path]

\* a merge that keeps only the recognized options
MergeConfigRecognizedOnly(defaults, config) ==
    [ cfg      |-> IF ConfigTruthy(config)
                   THEN [k \in DOMAIN defaults |->
                            IF k \in DOMAIN config.map THEN config.map[k] ELSE defaults[k]]
                   ELSE defaults,
      defaults |-> defaults ]

\* a merge that extends the default disabled_loggers instead of replacing it
MergeConfigDeep(defaults, config) ==
    LET shallow == IF ConfigTruthy(config) THEN config.map @@ defaults ELSE defaults
    IN  [ cfg      |-> [shallow EXCEPT !.disabled_loggers = @ @@ defaults.disabled_loggers],
          defaults |-> defaults ]

\* lines 79-81: cfg = DEFAULT_CONFIG.copy(); if config: cfg.update(config)
MergeConfig(defaults, config) ==
    [ cfg      |-> IF ConfigTruthy(config) THEN config.map @@ defaults ELSE defaults,
      defaults |-> defaults ]

\* a validation that rejects None only
FalsyNoneOnly(v) == v = NoneValue

\* line 84: not cfg['script_name']
Falsy(v) == v \in {NoneValue, ""}

\* the root level left as it is
SetRootLevelSkipped(lv) == lv

\* line 89: logger.setLevel(logging.DEBUG) on the root logger
SetRootLevel(lv) == [lv EXCEPT ![RootName] = DEBUG]

\* the earlier handlers kept
ClearHandlersKept(h) == h

\* line 92: logger.handlers.clear()
ClearHandlers(h) == << >>

\* lines 95 and 105: os.makedirs(..., exist_ok=True)
EnsureDir(ds, fs, path) == makedirs(ds, fs, path, TRUE)

\* lines 99-104
LogDir(cfg, now) ==
    os_path_join(<< cfg.log_path,
                    <<cfg.script_name>>,
                    <<strftime(now, cfg.date_format)>>,
                    <<strftime(now, cfg.time_format)>> >>)

\* the file name taken from a second reading of the clock
LogFileSecondRead(cfg, log_dir, now) ==
    os_path_join(<< log_dir,
                    <<strftime([now EXCEPT !.second = (@ + 1) % 60], cfg.file_format)
                        \o ".log">> >>)

\* line 108
LogFile(cfg, log_dir, now) ==
    os_path_join(<< log_dir, <<strftime(now, cfg.file_format) \o ".log">> >>)

\* lines 109-114
FileHandler(log_file, cfg) ==
    [ kind |-> "file", target |-> log_file, level |-> cfg.file_level,
      formatter |-> cfg.formatter, encoding |-> cfg.encoding ]

\* lines 120-122
StreamHandler(cfg) ==
    [ kind |-> "console", target |-> <<"<stderr>">>, level |-> cfg.console_level,
      formatter |-> cfg.formatter, encoding |-> NoneValue ]

\* lines 117 and 123-124: the handlers this call adds, in order
NewHandlers(cfg, log_file) ==
    <<FileHandler(log_file, cfg)>> \o
    (IF cfg.console_enabled THEN <<StreamHandler(cfg)>> ELSE << >>)

\* thresholds of the namespaces outside the mapping reset
ApplyDisabledLoggersReset(lv, mapping) ==
    [ n \in Namespaces |-> IF n \in DOMAIN mapping THEN mapping[n]
                           ELSE IF n = RootName THEN lv[n] ELSE NOTSET ]

\* lines 127-128: logging.getLogger(name).setLevel(level) for each pair
ApplyDisabledLoggers(lv, mapping) ==
    [ n \in Namespaces |-> IF n \in DOMAIN mapping THEN mapping[n] ELSE lv[n] ]

NoReturn == [log_file |-> << >>, log_dir |-> << >>, config |-> << >>]

NoCall ==
    [ config |-> [isNone |-> TRUE, map |-> << >>], cleaned |-> << >>,
      outcome |-> "none", attached |-> << >>, fault |-> "none", now |-> 0,
      dirExisted |-> FALSE, ret |-> NoReturn ]

FsFaults == {"none", "mkroot", "mkdir", "open"}

\* Whether the call reaches the filesystem steps (lines 95-109)
ReachesFs(config, cl) ==
    /\ CleanLogsArg(config, DEFAULT_CONFIG).error = "none"
    /\ ~cl.raises
    /\ ~Falsy(MergeConfig(DEFAULT_CONFIG, config).cfg.script_name)

\* The state after setup_logger(config) when the cleaner behaves as cl and
\* the filesystem fails at step fault
Run(config, cl, fault) ==
    LET old == [ defaults |-> DEFAULT_CONFIG, handlers |-> handlers, level |-> level,
                 dirs |-> dirs, files |-> files,
                 call |-> [NoCall EXCEPT !.config = config] ]
        arg == CleanLogsArg(config, DEFAULT_CONFIG)
    IN
    IF arg.error # "none"
    THEN [old EXCEPT !.call.outcome = arg.error]
    ELSE
    LET cleaned == clean_logs(dirs, files, arg.root, cl)
        s1 == [old EXCEPT !.dirs = cleaned.dirs, !.files = cleaned.files,
                          !.call.cleaned = <<arg.root>>]
    IN
    IF cleaned.raises
    THEN [s1 EXCEPT !.call.outcome = "CleanerError"]
    ELSE
    LET m   == MergeConfig(DEFAULT_CONFIG, config)
        cfg == m.cfg
        s2  == [s1 EXCEPT !.defaults = m.defaults]
    IN
    IF Falsy(cfg.script_name)
    THEN [s2 EXCEPT !.call.outcome = "ValueError"]
    ELSE
    LET s3 == [s2 EXCEPT !.level = SetRootLevel(s2.level),
                         !.handlers = ClearHandlers(s2.handlers),
                         !.call.fault = fault]
        mk1 == EnsureDir(s3.dirs, s3.files, cfg.log_path)
    IN
    IF fault = "mkroot" \/ mk1.error # "none"
    THEN [s3 EXCEPT !.call.outcome = "OSError"]
    ELSE
    LET now     == datetime_now(clock)
        log_dir == LogDir(cfg, now)
        mk2     == EnsureDir(mk1.dirs, s3.files, log_dir)
        s4      == [s3 EXCEPT !.dirs = mk1.dirs, !.call.now = clock,
                              !.call.dirExisted = (log_dir \in s3.dirs)]
    IN
    IF fault = "mkdir"
    THEN [s4 EXCEPT !.call.outcome = "OSError"]
    ELSE IF mk2.error # "none"
    THEN [s4 EXCEPT !.call.outcome = "OSError"]
    ELSE
    LET log_file == LogFile(cfg, log_dir, now)
        s5 == [s4 EXCEPT !.dirs = mk2.dirs]
    IN
    IF fault = "open" \/ log_file \in s5.dirs
    THEN [s5 EXCEPT !.call.outcome = "OSError"]
    ELSE
    LET added == NewHandlers(cfg, log_file)
    IN  [s5 EXCEPT !.files = @ \cup {log_file},
                   !.handlers = @ \o added,
                   !.level = ApplyDisabledLoggers(@, cfg.disabled_loggers),
                   !.call.attached = added,
                   !.call.outcome = "ok",
                   !.call.ret = [log_file |-> log_file, log_dir |-> log_dir,
                                 config |-> cfg]]

\* ----------------------------------------------------------------- actions
Init ==
    \E env \in {NoneValue, "envlogs"} :
        /\ DEFAULT_CONFIG = DefaultConfig(env)
        /\ handlers = << >>
        /\ level = [n \in Namespaces |-> IF n = RootName THEN WARNING ELSE NOTSET]
        /\ dirs = {}
        /\ files = {}
        /\ clock = StartClock
        /\ ticks = 0
        /\ calls = 0
        /\ call = NoCall

\* setup_logger(config), lines 60-137
SetupLogger ==
    /\ calls < MaxCalls
    /\ calls' = calls + 1
    /\ \E config \in CallerConfigs, cl \in CleanerOutcomes, fault \in FsFaults :
        /\ fault # "none" => ReachesFs(config, cl)
        /\ LET r == Run(config, cl, fault)
           IN  /\ DEFAULT_CONFIG' = r.defaults
               /\ handlers' = r.handlers
               /\ level' = r.level
               /\ dirs' = r.dirs
               /\ files' = r.files
               /\ call' = r.call
    /\ UNCHANGED <<clock, ticks>>

\* the wall clock read by datetime.now() advances between calls
Tick ==
    /\ ticks < MaxTicks
    /\ \E d \in TickSteps : clock' = clock + d
    /\ ticks' = ticks + 1
    /\ UNCHANGED <<DEFAULT_CONFIG, handlers, level, dirs, files, calls, call>>

Next == SetupLogger \/ Tick

Spec == Init /\ [][Next]_vars

\* ------------------------------------------- what the configured logger does
\* Logger.getEffectiveLevel: the logger's own level, else its parent's (the
\* root logger is the parent of every namespace of the model)
getEffectiveLevel(lv, n) ==
    IF lv[n] # NOTSET THEN lv[n]
    ELSE IF n = RootName THEN NOTSET ELSE lv[RootName]

\* Logger.isEnabledFor
IsEnabledFor(lv, n, l) == l >= getEffectiveLevel(lv, n)

RECURSIVE Emitting(_, _)
Emitting(hs, l) ==
    IF hs = << >> THEN << >>
    ELSE (IF l >= Head(hs).level THEN <<Head(hs)>> ELSE << >>) \o Emitting(Tail(hs), l)

\* the sinks that write a record of severity l emitted to namespace n, in
\* order: the record propagates to the handlers of the root logger
Writes(hs, lv, n, l) ==
    IF IsEnabledFor(lv, n, l) THEN Emitting(hs, l) ELSE << >>

\* ------------------------------------------------------------------ claims
\* the merged configuration of a call has no usable script_name: the caller
\* passed no configuration, or none with a non-empty script_name
MergedScriptMissing(config) ==
    \/ ~ConfigTruthy(config)
    \/ "script_name" \notin DOMAIN config.map
    \/ config.map.script_name \in {NoneValue, ""}

SuppliesKey(config, k) == ~config.isNone /\ k \in DOMAIN config.map

\* the step is a call of setup_logger
IsCall == calls' = calls + 1

\* C1: every call whose merged configuration has script_name absent or empty,
\* whatever other keys it supplies, ends in the ConfigurationError (ValueError)
\* outcome and attaches no sink.
C1_MissingScriptNameIsConfigurationError ==
    (call.outcome # "none" /\ MergedScriptMissing(call.config))
        => (call.outcome = "ValueError" /\ call.attached = << >>)

\* C2: every call invokes the retention cleaner exactly once, with the caller's
\* log_path when supplied and the default log_path otherwise, and then goes on
\* to merge and validation.
C2_CleanerOnceWithResolvedRoot ==
    call.outcome # "none" =>
        /\ call.cleaned =
              << IF SuppliesKey(call.config, "log_path")
                 THEN call.config.map.log_path
                 ELSE DEFAULT_CONFIG.log_path >>
        /\ call.outcome \in {"ok", "ValueError", "OSError"}

\* the sinks a successful call is to leave attached, from what it returned
ExpectedSinks(ret) ==
    << [ kind |-> "file", target |-> ret.log_file, level |-> ret.config.file_level,
         formatter |-> ret.config.formatter, encoding |-> ret.config.encoding ] >>
    \o (IF ret.config.console_enabled
        THEN << [ kind |-> "console", target |-> <<"<stderr>">>,
                  level |-> ret.config.console_level,
                  formatter |-> ret.config.formatter, encoding |-> NoneValue ] >>
        ELSE << >>)

NoDuplicates(q) == \A i, j \in 1..Len(q) : q[i] = q[j] => i = j

\* C3: after a successful call the sinks of the root logger are exactly that
\* call's sinks (one file sink on its log_file at file_level, and a console
\* sink at console_level iff console_enabled), none of an earlier call remains
\* and no record is written twice.
C3_SinksAreThoseOfLastCall ==
    call.outcome = "ok" =>
        /\ handlers = ExpectedSinks(call.ret)
        /\ \A n \in Namespaces, l \in Levels :
              LET w == Writes(handlers, level, n, l)
              IN  /\ NoDuplicates(w)
                  /\ Cardinality({ i \in 1..Len(w) : w[i].kind = "file" }) <= 1
                  /\ Cardinality({ i \in 1..Len(w) : w[i].kind = "console" }) <= 1

\* two calls succeeded at different instants and the last one disabled the console
C3_Witness ==
    /\ call.outcome = "ok"
    /\ Cardinality(files) = 2
    /\ ~call.ret.config.console_enabled
    /\ Len(handlers) = 1

\* C4: a failure raised inside the retention cleaner is swallowed: the caller
\* never sees it.
C4_CleanerFailureSwallowed == call.outcome # "CleanerError"

\* the documented default of a recognized option
DocumentedDefault(k) ==
    IF k = "log_path" THEN DEFAULT_CONFIG.log_path ELSE DefaultConfig(NoneValue)[k]

ValueIsCallersOrDefault(k) ==
    call.ret.config[k] = IF SuppliesKey(call.config, k) THEN call.config.map[k]
                         ELSE DocumentedDefault(k)

\* C5 as stated: the returned config of a successful call has exactly the
\* recognized option keys, even when the caller supplies unrecognized keys, each
\* with the caller's value when supplied and the documented default otherwise.
C5_ExactlyRecognizedKeys ==
    call.outcome = "ok" =>
        /\ DOMAIN call.ret.config = RecognizedKeys
        /\ \A k \in RecognizedKeys : ValueIsCallersOrDefault(k)

\* C5 amended: the returned config of a successful call has the recognized
\* option keys together with every key the caller supplied (an unrecognized
\* key is kept), each with the caller's value when supplied and the documented
\* default otherwise.
C5_RecognizedAndSuppliedKeys ==
    call.outcome = "ok" =>
        /\ DOMAIN call.ret.config = RecognizedKeys \cup DOMAIN call.config.map
        /\ \A k \in DOMAIN call.ret.config : ValueIsCallersOrDefault(k)

\* a successful call whose caller supplied an unrecognized key
C5_Witness ==
    /\ call.outcome = "ok"
    /\ SuppliesKey(call.config, "tag")
    /\ call.ret.config.tag = "x"

\* the call c succeeded and its disabled_loggers names n
Mentions(c, n) == c.outcome = "ok" /\ n \in DOMAIN c.ret.config.disabled_loggers

\* n's threshold was set through disabled_loggers (the root logger's level is
\* also set by setLevel on every successful call)
ThresholdSet(n) ==
    IF n = RootName THEN Mentions(call, n) ELSE level[n] # NOTSET

\* C6 as stated: once a successful call has set namespace N's threshold to T
\* through disabled_loggers, records to N below T stay suppressed in every
\* later state.
C6_SuppressedForever ==
    [][ \A n \in Namespaces, l \in Levels :
          (ThresholdSet(n) /\ l < level[n]) => ~IsEnabledFor(level', n, l) ]_vars

\* C6 amended: for a namespace N other than the root logger, records to N below
\* the threshold set through disabled_loggers stay suppressed across every
\* later call that fails or whose disabled_loggers does not mention N.
C6_SuppressedUnlessMentioned ==
    [][ \A n \in Namespaces \ {RootName}, l \in Levels :
          (level[n] # NOTSET /\ l < level[n] /\ ~Mentions(call', n))
              => (level'[n] = level[n] /\ ~IsEnabledFor(level', n, l)) ]_vars

\* "noisy" was set to ERROR by the first call and the second call succeeded
\* without mentioning it
C6_Witness ==
    /\ calls = 2
    /\ call.outcome = "ok"
    /\ ~Mentions(call, "noisy")
    /\ level["noisy"] = ERROR
    /\ ~IsEnabledFor(level, "noisy", WARNING)

\* C7: a successful call at instant now returns
\* log_dir = log_path / script_name / date(now) / hour(now) and
\* log_file = log_dir / minute-second(now) + ".log", all from the same instant;
\* the log root and log_dir with all parents exist when the file sink is
\* opened, and creating directories that already exist succeeds.
C7_PathsFromOneInstant ==
    /\ call.outcome = "ok" =>
          LET now == datetime_now(call.now)
              cfg == call.ret.config
          IN  /\ call.ret.log_dir =
                    cfg.log_path \o << cfg.script_name,
                                       strftime(now, cfg.date_format),
                                       strftime(now, cfg.time_format) >>
              /\ call.ret.log_file =
                    call.ret.log_dir \o << strftime(now, cfg.file_format) \o ".log" >>
              /\ Prefixes(cfg.log_path) \subseteq dirs
              /\ Prefixes(call.ret.log_dir) \subseteq dirs
              /\ call.ret.log_file \in files
              /\ (call.now = StartClock /\ ~SuppliesKey(call.config, "date_format"))
                    => /\ call.ret.log_dir = cfg.log_path \o <<"svc", "20240305", "14">>
                       /\ call.ret.log_file =
                             cfg.log_path \o <<"svc", "20240305", "14", "2207.log">>
    /\ call.fault = "open" =>
          Prefixes(LogDir(MergeConfig(DEFAULT_CONFIG, call.config).cfg,
                          datetime_now(call.now))) \subseteq dirs
    /\ call.outcome = "OSError" => call.fault # "none"

\* the call of the spec's example (svc, console off, 14:22:07 on 2024-03-05),
\* made when its log_dir already existed
C7_Witness ==
    /\ call.outcome = "ok"
    /\ call.dirExisted
    /\ call.now = StartClock
    /\ call.ret.config.script_name = "svc"
    /\ ~call.ret.config.console_enabled
    /\ call.ret.log_file = DEFAULT_CONFIG.log_path \o <<"svc", "20240305", "14", "2207.log">>

\* C8: a call that reaches validation with script_name missing fails with
\* ValueError and, apart from what the retention cleaner removed, changes
\* nothing: no directory or file is created and the sinks, the root level and
\* every namespace threshold are as before the call.
C8_ValidationFailureFrame ==
    [][ ( /\ IsCall
          /\ MergedScriptMissing(call'.config)
          /\ call'.outcome \notin {"UnboundLocalError", "CleanerError"} )
        => /\ call'.outcome = "ValueError"
           /\ handlers' = handlers
           /\ level' = level
           /\ dirs' \subseteq dirs
           /\ files' \subseteq files
           /\ call'.attached = << >> ]_vars

\* a validation failure after a successful call: that call's sinks are still attached
C8_Witness ==
    /\ calls = 2
    /\ call.outcome = "ValueError"
    /\ Len(handlers) = 2
    /\ level[RootName] = DEBUG

\* C9: when the caller supplies disabled_loggers the merged mapping is exactly
\* the caller's, the call sets the thresholds of the namespaces in it and of no
\* other namespace, and the defaults are unchanged for later calls.
C9_ShallowMerge ==
    [][ /\ DEFAULT_CONFIG' = DEFAULT_CONFIG
        /\ ( /\ IsCall
             /\ call'.outcome = "ok"
             /\ SuppliesKey(call'.config, "disabled_loggers") )
           => LET m == call'.config.map.disabled_loggers
              IN  /\ call'.ret.config.disabled_loggers = m
                  /\ \A n \in DOMAIN m : level'[n] = m[n]
                  /\ \A n \in Namespaces \ (DOMAIN m \cup {RootName}) :
                        level'[n] = level[n] ]_vars

\* the caller's mapping names only "noisy": the default namespaces got no threshold
C9_Witness ==
    /\ call.outcome = "ok"
    /\ SuppliesKey(call.config, "disabled_loggers")
    /\ DOMAIN call.config.map.disabled_loggers = {"noisy"}
    /\ level["noisy"] = ERROR
    /\ \A n \in DOMAIN DefaultDisabledLoggers : level[n] = NOTSET
    /\ DEFAULT_CONFIG.disabled_loggers = DefaultDisabledLoggers

\* C10: when a call with a valid configuration fails in a filesystem step, the
\* error reaches the caller (nothing is returned, no file is created by a retry
\* or fallback), the root logger is left with no sink and level DEBUG, and no
\* namespace threshold of the call has been applied.
C10_FilesystemFailureState ==
    [][ (IsCall /\ call'.outcome = "OSError")
        => /\ handlers' = << >>
           /\ level'[RootName] = DEBUG
           /\ \A n \in Namespaces \ {RootName} : level'[n] = level[n]
           /\ call'.ret = NoReturn
           /\ call'.attached = << >>
           /\ files' \subseteq files ]_vars

\* a filesystem failure in the second call, after a call that had attached sinks
C10_Witness ==
    /\ calls = 2
    /\ call.outcome = "OSError"
    /\ Cardinality(files) = 1
    /\ handlers = << >>
    /\ level[RootName] = DEBUG

====
